---- MODULE Spec2Model ----
(***************************************************************************)
(* State-machine model of trade_engine.py: the option snapshot -> signal   *)
(* -> alert pipeline (fetch_nifty_chain, load_rolling_oi,                  *)
(* evaluate_trade_alerts, send_telegram_alert, run_engine).                *)
(*                                                                         *)
(* Four specifications share the variables:                                *)
(*   Spec         run_engine, invoked again and again by the scheduler,    *)
(*                with the cache file persisting between invocations;      *)
(*   SpecDispatch send_telegram_alert applied to messages of any shape;    *)
(*   SpecEval     evaluate_trade_alerts applied to snapshots;              *)
(*   SpecRolling  load_rolling_oi applied to log directories.              *)
(***************************************************************************)
EXTENDS Integers, Sequences, FiniteSets, TLC

VARIABLES
    pc,          \* position of the running function
    now,         \* the wall clock, seconds (time.time())
    cache,       \* cache/nifty_cache.csv: [exists, rows, mtime]
    resp,        \* what the market-data source answered in this call
    requests,    \* HTTP GETs issued by fetch_nifty_chain in this call
    cacheAtCall, \* the cache file as it was when fetch_nifty_chain began
    df,          \* fetch_nifty_chain's return value: [isNone, rows]
    alerts,      \* evaluate_trade_alerts' return value
    message,     \* the argument of send_telegram_alert
    sinkCalls,   \* bot.send_message calls made, in order (their text)
    delivered,   \* how many of them the sink accepted
    printed,     \* console output of the run, in order
    sendRet,     \* what send_telegram_alert returned to its caller
    logs,        \* the logs/ directory: files in name order
    memory       \* load_rolling_oi's return value

vars == <<pc, now, cache, resp, requests, cacheAtCall, df, alerts, message,
          sinkCalls, delivered, printed, sendRet, logs, memory>>

(***************************************************************************)
(* Text.  A Python str is kept run-length encoded: a sequence of runs      *)
(* [c, n] (character c repeated n > 0 times), adjacent runs differing in   *)
(* c.  "" is <<>>.  len, slicing and + are computed on the runs, so the    *)
(* real transport size of 4000 characters is affordable.                   *)
(***************************************************************************)
NL == "\n"

Run(c, n) == [c |-> c, n |-> n]

RECURSIVE TextLen(_)
TextLen(s) == IF s = <<>> THEN 0 ELSE s[1].n + TextLen(Tail(s))

\* s[:k]
RECURSIVE TakeChars(_, _)
TakeChars(s, k) ==
    IF k <= 0 \/ s = <<>> THEN <<>>
    ELSE IF s[1].n >= k THEN <<Run(s[1].c, k)>>
    ELSE <<s[1]>> \o TakeChars(Tail(s), k - s[1].n)

\* s[k:]
RECURSIVE DropChars(_, _)
DropChars(s, k) ==
    IF k <= 0 \/ s = <<>> THEN s
    ELSE IF s[1].n > k THEN <<Run(s[1].c, s[1].n - k)>> \o Tail(s)
    ELSE DropChars(Tail(s), k - s[1].n)

\* s[i:j]
Slice(s, i, j) == TakeChars(DropChars(s, i), j - i)

\* a + b
Concat(a, b) ==
    IF a = <<>> THEN b
    ELSE IF b = <<>> THEN a
    ELSE IF a[Len(a)].c = b[1].c
         THEN SubSeq(a, 1, Len(a) - 1)
              \o <<Run(b[1].c, a[Len(a)].n + b[1].n)>> \o Tail(b)
         ELSE a \o b

RECURSIVE ConcatAll(_)
ConcatAll(ts) == IF ts = <<>> THEN <<>> ELSE Concat(ts[1], ConcatAll(Tail(ts)))

\* "\n".join(ts)
RECURSIVE JoinLines(_)
JoinLines(ts) ==
    IF ts = <<>> THEN <<>>
    ELSE IF Len(ts) = 1 THEN ts[1]
    ELSE Concat(ts[1], Concat(<<Run(NL, 1)>>, JoinLines(Tail(ts))))

\* the character at 0-based position i of s
CharAt(s, i) == TakeChars(DropChars(s, i), 1)[1].c

(***************************************************************************)
(* send_telegram_alert                                                     *)
(***************************************************************************)
\* the transport size of lines 121-123
ChunkSize == 4000

\* [message[i:i+4000] for i in range(0, len(message), 4000)]
RECURSIVE SliceFrom(_, _)
SliceFrom(m, i) ==
    IF i >= TextLen(m) THEN <<>>
    ELSE <<Slice(m, i, i + ChunkSize)>> \o SliceFrom(m, i + ChunkSize)

\* a plausible slip: the message is never split
ChunksUnsplit(m) == <<m>>

\* the texts send_telegram_alert hands to bot.send_message, in order
Chunks(m) == IF TextLen(m) > ChunkSize THEN SliceFrom(m, 0) ELSE <<m>>

\* the value send_telegram_alert returns after "Telegram alert sent!": the
\* function has no return statement, on either path
ReturnOnFullDelivery == "None"

\* every bot.send_message call succeeds; the function prints and returns
SendAllAccepted(m) ==
    /\ sinkCalls' = Chunks(m)
    /\ delivered' = Len(Chunks(m))
    /\ printed' = Append(printed, "Telegram alert sent!")
    /\ sendRet' = ReturnOnFullDelivery

\* the sink accepts k chunks and raises on the next one: the except clause
\* prints, the loop is left, nothing is sent again, and the function
\* returns None
SendRejected(m) ==
    \E k \in 0 .. Len(Chunks(m)) - 1 :
        /\ sinkCalls' = SubSeq(Chunks(m), 1, k + 1)
        /\ delivered' = k
        /\ printed' = Append(printed, "Telegram alert failed")
        /\ sendRet' = "None"

(***************************************************************************)
(* Table cells.  A cell is [t, n]: a number, NaN/NaT/None, text that is    *)
(* no number, a key that the source's dict does not hold, a date as the    *)
(* source writes it, a parsed Timestamp, a date as to_csv writes it, or a  *)
(* number of sevenths (Theta = -|LTP| * 10 / 7 is kept exact).             *)
(***************************************************************************)
Num(n)       == [t |-> "num", n |-> n]
Sevenths(n)  == [t |-> "num/7", n |-> n]
NaN          == [t |-> "nan", n |-> 0]
Junk         == [t |-> "str", n |-> 0]
Missing      == [t |-> "missing", n |-> 0]
DateStr(d)   == [t |-> "datestr", n |-> d]
Timestamp(d) == [t |-> "ts", n |-> d]
IsoStr(d)    == [t |-> "isostr", n |-> d]

Abs(x) == IF x < 0 THEN -x ELSE x

\* pd.to_numeric(column, errors="coerce"), one cell
ToNumeric(c) == IF c.t = "num" THEN c ELSE NaN

\* pd.to_datetime(column, errors="coerce"), one cell
ToDatetime(c) == IF c.t = "datestr" THEN Timestamp(c.n) ELSE NaN

\* lambda x: -abs(x) * 10 / 7 if pd.notnull(x) else 0
ThetaOf(c) == IF c.t = "num" THEN Sevenths(-Abs(c.n) * 10) ELSE Num(0)

Columns == {"Type", "Strike", "LTP", "IV", "OI", "ChgOI", "Theta",
            "expiryDate", "underlyingValue"}

\* the rows list of lines 60-69: one row per option dict of each item, CE
\* before PE, with Type, Strike and underlyingValue added
RowOf(item, opt, o, spot) ==
    [Type |-> opt, Strike |-> item.strikePrice, underlyingValue |-> spot,
     lastPrice |-> o.lastPrice, impliedVolatility |-> o.impliedVolatility,
     openInterest |-> o.openInterest,
     changeinOpenInterest |-> o.changeinOpenInterest,
     expiryDate |-> o.expiryDate]

RECURSIVE RawRows(_, _)
RawRows(data, spot) ==
    IF data = <<>> THEN <<>>
    ELSE LET item == data[1] IN
         (IF item.CE # <<>> THEN <<RowOf(item, "CE", item.CE[1], spot)>> ELSE <<>>)
         \o (IF item.PE # <<>> THEN <<RowOf(item, "PE", item.PE[1], spot)>> ELSE <<>>)
         \o RawRows(Tail(data), spot)

\* pd.DataFrame(rows) has a column for every key some row holds
HasColumn(rows, f) == \E i \in 1 .. Len(rows) : rows[i][f].t # "missing"

\* df["IV"], df["OI"], df["Chg OI"], df["LTP"], df["expiryDate"] raise
\* KeyError when the frame has no such column (an empty rows list has none)
FrameHasColumns(rows) ==
    \A f \in {"impliedVolatility", "openInterest", "changeinOpenInterest",
              "lastPrice", "expiryDate"} : HasColumn(rows, f)

\* lines 72-85 on one row: rename, to_numeric, Theta, to_datetime.  A key
\* the row's dict lacks is NaN in the frame.  The column "Chg OI" is the
\* field ChgOI.
Renamed(r) ==
    [Type |-> r.Type,
     Strike |-> ToNumeric(r.Strike),
     LTP |-> ToNumeric(r.lastPrice),
     IV |-> ToNumeric(r.impliedVolatility),
     OI |-> ToNumeric(r.openInterest),
     ChgOI |-> ToNumeric(r.changeinOpenInterest),
     Theta |-> ThetaOf(ToNumeric(r.lastPrice)),
     expiryDate |-> ToDatetime(r.expiryDate),
     underlyingValue |-> IF r.underlyingValue.t = "num" THEN r.underlyingValue ELSE NaN]

IsNull(c) == c.t = "nan"

RowHasNull(r) ==
    \E f \in Columns \ {"Type"} : IsNull(r[f])

\* a plausible slip: df.dropna() left out
DropnaOmitted(rows) == rows

\* df.dropna()
RECURSIVE Dropna(_)
Dropna(rows) ==
    IF rows = <<>> THEN <<>>
    ELSE (IF RowHasNull(rows[1]) THEN <<>> ELSE <<rows[1]>>) \o Dropna(Tail(rows))

\* lines 71-86: the normalised table of a well-formed payload
Normalise(data, spot) ==
    LET raw == RawRows(data, spot) IN
    Dropna([i \in 1 .. Len(raw) |-> Renamed(raw[i])])

\* df.to_csv(cache_file, index=False): a Timestamp is written as ISO text
CsvCell(c) == IF c.t = "ts" THEN IsoStr(c.n) ELSE c

ToCsv(rows) ==
    [i \in 1 .. Len(rows) |-> [f \in DOMAIN rows[i] |->
        IF f = "Type" THEN rows[i][f] ELSE CsvCell(rows[i][f])]]

\* pd.read_csv(cache_file): numbers are parsed, the date column stays text
ReadCsvCell(c) == IF c.t \in {"num", "num/7"} THEN c ELSE IsoStr(c.n)

ReadCsv(rows) ==
    [i \in 1 .. Len(rows) |-> [f \in DOMAIN rows[i] |->
        IF f = "Type" THEN rows[i][f] ELSE ReadCsvCell(rows[i][f])]]

(***************************************************************************)
(* compute_bsm_delta and evaluate_trade_alerts                             *)
(***************************************************************************)
Min(a, b) == IF a < b THEN a ELSE b

RECURSIVE Digits(_)
Digits(n) == IF n < 10 THEN 1 ELSE 1 + Digits(n \div 10)

\* len(str(n)) of an integer, len(f"{n:.2f}") of an integer-valued number
IntWidth(n) == (IF n < 0 THEN 1 ELSE 0) + Digits(Abs(n))
Fixed2Width(n) == IntWidth(n) + 3

\* len(f"{n/7:.2f}")
SeventhsWidth(n) ==
    (IF n < 0 THEN 1 ELSE 0) + Digits(((Abs(n) * 200 + 7) \div 14) \div 100) + 3

\* round(a / b) of Python 3: to the nearest integer, a tie to the even one
RoundHalfEven(a, b) ==
    LET q == a \div b
        r == a % b
    IN  IF 2 * r < b THEN q
        ELSE IF 2 * r > b THEN q + 1
        ELSE IF q % 2 = 0 THEN q ELSE q + 1

\* norm.cdf(d1) in ten-thousandths, d1 as line 113 computes it for
\* T = 3/365, r = 0.06, S = 18020, sigma = 0.15, tabulated by strike
NormCdfD1(S, K, iv) ==
    CASE S = 18020 /\ iv = 15 /\ K = 18000 -> 5496
      [] S = 18020 /\ iv = 15 /\ K = 18050 -> 4684
      [] S = 18020 /\ iv = 15 /\ K = 18100 -> 3887
      [] S = 18020 /\ iv = 15 /\ K = 18150 -> 3137
      [] S = 18020 /\ iv = 15 /\ K = 18200 -> 2458
      [] S = 18020 /\ iv = 15 /\ K = 18250 -> 1868

\* delta in ten-thousandths; sigma = 0 or K = 0 divides by zero and the
\* bare except returns 0
compute_bsm_delta(S, K, iv, option_type) ==
    IF iv = 0 \/ K = 0 THEN 0
    ELSE IF option_type = "CE" THEN NormCdfD1(S, K, iv)
    ELSE NormCdfD1(S, K, iv) - 10000

\* df[df["Type"] == t]
RECURSIVE TypeRows(_, _)
TypeRows(rows, t) ==
    IF rows = <<>> THEN <<>>
    ELSE (IF rows[1].Type = t THEN <<rows[1]>> ELSE <<>>) \o TypeRows(Tail(rows), t)

IsDescending(q) ==
    \A i \in 1 .. Len(q) - 1 : q[i].ChgOI.n >= q[i + 1].ChgOI.n

\* .sort_values("Chg OI", ascending=False): the default kind is quicksort,
\* which pandas documents as not stable (numpy's introsort reorders equal
\* keys from 18 elements on, its vectorised kernels at any size), so rows of
\* equal Chg OI may come out in any order
SortValuesDescending(rows) ==
    {q \in {[i \in 1 .. Len(rows) |-> rows[p[i]]] : p \in Permutations(1 .. Len(rows))} :
        IsDescending(q)}

\* .head(n)
HeadRows(q, n) == SubSeq(q, 1, Min(n, Len(q)))

TextLine(n) ==
    [kind |-> "text", cls |-> "-", strike |-> 0, ltp |-> 0, delta |-> 0,
     theta |-> 0, chg |-> 0, action |-> "-",
     text |-> IF n = 0 THEN <<>> ELSE <<Run("x", n)>>]

\* the five header lines of lines 136-142
HeaderLines(S) ==
    << TextLine(60),
       TextLine(20 + Fixed2Width(S) + IntWidth(RoundHalfEven(S, 50) * 50)),
       TextLine(40),
       TextLine(0),
       TextLine(29) >>

\* "\nSuggested Put Option Trades:"
PutHeader ==
    [TextLine(28) EXCEPT !.text = <<Run(NL, 1), Run("x", 28)>>]

\* lines 146-148 and 153-155: one alert line of a ranked contract
ContractLine(S, row) ==
    LET delta == compute_bsm_delta(S, row.Strike.n, row.IV.n, row.Type)
        strong == IF row.Type = "CE" THEN delta > 4000 ELSE Abs(delta) > 4000
        action == IF strong /\ row.ChgOI.n > 10000 THEN "buy" ELSE "avoid"
        width == (IF row.Type = "CE" THEN 71 ELSE 74)
                 + IntWidth(row.Strike.n) + Fixed2Width(row.LTP.n)
                 + 4 + (IF delta < 0 THEN 1 ELSE 0)
                 + SeventhsWidth(row.Theta.n) + IntWidth(row.ChgOI.n)
                 + (IF action = "buy" THEN 3 ELSE 5)
    IN  [kind |-> "contract", cls |-> row.Type, strike |-> row.Strike.n,
         ltp |-> row.LTP.n, delta |-> delta, theta |-> row.Theta.n,
         chg |-> row.ChgOI.n, action |-> action, text |-> <<Run("x", width)>>]

\* the alert lists evaluate_trade_alerts can return for a non-empty table
AlertLists(rows) ==
    LET S == rows[1].underlyingValue.n IN
    { HeaderLines(S)
      \o [i \in 1 .. Len(ce) |-> ContractLine(S, ce[i])]
      \o <<PutHeader>>
      \o [i \in 1 .. Len(pe) |-> ContractLine(S, pe[i])] :
        ce \in {HeadRows(q, 3) : q \in SortValuesDescending(TypeRows(rows, "CE"))},
        pe \in {HeadRows(q, 3) : q \in SortValuesDescending(TypeRows(rows, "PE"))} }

\* "\n".join(alerts)
MessageOf(als) == JoinLines([i \in 1 .. Len(als) |-> als[i].text])

(***************************************************************************)
(* The market-data source                                                  *)
(***************************************************************************)
NoResponse == [kind |-> "none", status |-> 0, body |-> "-", data |-> <<>>, spot |-> NaN]
NoFrame    == [isNone |-> TRUE, rows |-> <<>>]
NoCache    == [exists |-> FALSE, rows |-> <<>>, mtime |-> 0]

\* the dict {}
EmptyMapping == [k \in {} |-> 0]

GoodOpt(ltp, iv, chg) ==
    [lastPrice |-> Num(ltp), impliedVolatility |-> Num(iv), openInterest |-> Num(100),
     changeinOpenInterest |-> Num(chg), expiryDate |-> DateStr(1)]

\* option dicts the source may send: two sound ones, one whose lastPrice is
\* the text "-", one without the impliedVolatility key
RawOptions ==
    { GoodOpt(21, 15, 20000),
      GoodOpt(5, 0, 9000),
      [GoodOpt(21, 15, 20000) EXCEPT !.lastPrice = Junk],
      [GoodOpt(21, 15, 20000) EXCEPT !.impliedVolatility = Missing] }

OptSlots == {<<>>} \cup {<<o>> : o \in RawOptions}

Item(strike, ce, pe) == [strikePrice |-> Num(strike), CE |-> ce, PE |-> pe]

\* records.data of a payload: none, one or two strikes
DataLists ==
    {<<>>}
    \cup {<<Item(18000, ce, pe)>> : ce \in OptSlots, pe \in OptSlots}
    \cup {<<Item(18000, <<GoodOpt(21, 15, 20000)>>, <<GoodOpt(21, 15, 20000)>>), j>> :
            j \in { Item(18050, <<GoodOpt(21, 15, 20000)>>, <<GoodOpt(5, 0, 9000)>>),
                    Item(18050, <<[GoodOpt(21, 15, 20000) EXCEPT !.lastPrice = Junk]>>, <<>>) }}

\* what the two session.get calls of lines 49-50 can meet
Responses ==
    { [NoResponse EXCEPT !.kind = "home_raises"],
      [NoResponse EXCEPT !.kind = "api_raises"],
      [NoResponse EXCEPT !.kind = "answered", !.status = 403],
      [NoResponse EXCEPT !.kind = "answered", !.status = 200, !.body = "not_json"],
      [NoResponse EXCEPT !.kind = "answered", !.status = 200, !.body = "no_records"],
      [kind |-> "answered", status |-> 503, body |-> "records",
       data |-> <<Item(18000, <<GoodOpt(21, 15, 20000)>>, <<>>)>>, spot |-> Num(18020)] }
    \cup { [kind |-> "answered", status |-> 200, body |-> "records", data |-> d,
            spot |-> Num(18020)] : d \in DataLists }

\* lines 56-86 raise nothing: the body is JSON with records.data and
\* records.underlyingValue, and the frame has every column that is indexed
Parses(r) ==
    /\ r.body = "records"
    /\ FrameHasColumns(RawRows(r.data, r.spot))

\* a plausible slip: the status check of lines 52-54 left out
SucceedsAnyStatus(r) == r.kind = "answered" /\ Parses(r)

\* the source answered 200 with a payload the code can turn into a table
Succeeds(r) == r.kind = "answered" /\ r.status = 200 /\ Parses(r)

(***************************************************************************)
(* fetch_nifty_chain                                                       *)
(***************************************************************************)
cache_minutes == 10

\* a plausible slip: the TTL compared in minutes against seconds
CacheFreshMinutes == cache.exists /\ now - cache.mtime < cache_minutes

\* lines 33-35
CacheFresh == cache.exists /\ now - cache.mtime < cache_minutes * 60

\* lines 33-36: the cache is fresh, it is read and returned
FetchCacheHit ==
    /\ pc = "fetch"
    /\ CacheFresh
    /\ df' = [isNone |-> FALSE, rows |-> ReadCsv(cache.rows)]
    /\ pc' = "fetched"
    /\ UNCHANGED <<now, cache, resp, requests, cacheAtCall, alerts, message,
                   sinkCalls, delivered, printed, sendRet, logs, memory>>

\* lines 38-57 and 91-93: a transport exception, a status other than 200 or
\* a payload that raises while it is parsed
FetchFailure ==
    /\ pc = "fetch"
    /\ ~CacheFresh
    /\ \E r \in Responses :
        /\ ~Succeeds(r)
        /\ resp' = r
        /\ requests' = IF r.kind = "home_raises" THEN 1 ELSE 2
        /\ printed' = Append(printed,
                IF r.kind = "answered" /\ r.status # 200
                THEN "NSE fetch failed: HTTP" ELSE "NSE fetch failed:")
    /\ df' = NoFrame
    /\ pc' = "fetched"
    /\ UNCHANGED <<now, cache, cacheAtCall, alerts, message, sinkCalls,
                   delivered, sendRet, logs, memory>>

\* lines 38-89: the table is built, written to the cache and returned
FetchFresh ==
    /\ pc = "fetch"
    /\ ~CacheFresh
    /\ \E r \in Responses :
        /\ Succeeds(r)
        /\ resp' = r
        /\ requests' = 2
        /\ df' = [isNone |-> FALSE, rows |-> Normalise(r.data, r.spot)]
        /\ cache' = [exists |-> TRUE, rows |-> ToCsv(Normalise(r.data, r.spot)),
                     mtime |-> now]
    /\ pc' = "fetched"
    /\ UNCHANGED <<now, cacheAtCall, alerts, message, sinkCalls, delivered,
                   printed, sendRet, logs, memory>>

(***************************************************************************)
(* run_engine: one cycle per scheduled invocation                          *)
(***************************************************************************)
MaxNow == 1200

\* seconds that may pass between two invocations
TickSteps == {300, 599}

Tick ==
    /\ pc = "idle"
    /\ \E d \in TickSteps :
        /\ now + d <= MaxNow
        /\ now' = now + d
    /\ UNCHANGED <<pc, cache, resp, requests, cacheAtCall, df, alerts, message,
                   sinkCalls, delivered, printed, sendRet, logs, memory>>

\* line 161: run_engine calls fetch_nifty_chain()
RunEngine ==
    /\ pc = "idle"
    /\ pc' = "fetch"
    /\ cacheAtCall' = cache
    /\ UNCHANGED <<now, cache, resp, requests, df, alerts, message, sinkCalls,
                   delivered, printed, sendRet, logs, memory>>

\* lines 162, 168-169
ReportFetchFailure ==
    /\ pc = "fetched"
    /\ df.isNone
    /\ printed' = Append(printed, "Failed to fetch live data.")
    /\ pc' = "done"
    /\ UNCHANGED <<now, cache, resp, requests, cacheAtCall, df, alerts, message,
                   sinkCalls, delivered, sendRet, logs, memory>>

\* lines 131-157 on a table with rows, then lines 164 and 166-167 of the
\* caller when the list is empty
EvaluateReturns ==
    /\ pc \in {"fetched", "input"}
    /\ ~df.isNone
    /\ df.rows # <<>>
    /\ \E a \in AlertLists(df.rows) :
        /\ alerts' = a
        /\ pc' = IF pc = "input" THEN "ranked"
                 ELSE IF a # <<>> THEN "evaluated" ELSE "done"
        /\ printed' = IF pc = "fetched" /\ a = <<>>
                      THEN Append(printed, "No actionable alerts found.")
                      ELSE printed
    /\ UNCHANGED <<now, cache, resp, requests, cacheAtCall, df, message,
                   sinkCalls, delivered, sendRet, logs, memory>>

\* line 132 on a table without rows: .iloc[0] raises IndexError, which
\* neither evaluate_trade_alerts nor run_engine catches
EvaluateRaises ==
    /\ pc \in {"fetched", "input"}
    /\ ~df.isNone
    /\ df.rows = <<>>
    /\ printed' = Append(printed, "IndexError")
    /\ pc' = IF pc = "input" THEN "raised" ELSE "crashed"
    /\ UNCHANGED <<now, cache, resp, requests, cacheAtCall, df, alerts, message,
                   sinkCalls, delivered, sendRet, logs, memory>>

\* line 165 and lines 119-126, every send accepted
DispatchAccepted ==
    /\ pc \in {"evaluated", "call"}
    /\ message' = IF pc = "call" THEN message ELSE MessageOf(alerts)
    /\ SendAllAccepted(message')
    /\ pc' = IF pc = "call" THEN "returned" ELSE "done"
    /\ UNCHANGED <<now, cache, resp, requests, cacheAtCall, df, alerts, logs, memory>>

\* line 165 and lines 119-128, a send raising
DispatchRejected ==
    /\ pc \in {"evaluated", "call"}
    /\ message' = IF pc = "call" THEN message ELSE MessageOf(alerts)
    /\ SendRejected(message')
    /\ pc' = IF pc = "call" THEN "returned" ELSE "done"
    /\ UNCHANGED <<now, cache, resp, requests, cacheAtCall, df, alerts, logs, memory>>

\* the process ends; of its state only the cache file and the clock remain
Exit ==
    /\ pc \in {"done", "crashed"}
    /\ pc' = "idle"
    /\ resp' = NoResponse
    /\ requests' = 0
    /\ cacheAtCall' = NoCache
    /\ df' = NoFrame
    /\ alerts' = <<>>
    /\ message' = <<>>
    /\ sinkCalls' = <<>>
    /\ delivered' = 0
    /\ printed' = <<>>
    /\ sendRet' = "-"
    /\ UNCHANGED <<now, cache, logs, memory>>

Init ==
    /\ pc = "idle"
    /\ now = 0
    /\ cache = NoCache
    /\ resp = NoResponse
    /\ requests = 0
    /\ cacheAtCall = NoCache
    /\ df = NoFrame
    /\ alerts = <<>>
    /\ message = <<>>
    /\ sinkCalls = <<>>
    /\ delivered = 0
    /\ printed = <<>>
    /\ sendRet = "-"
    /\ logs = <<>>
    /\ memory = EmptyMapping

Next ==
    \/ Tick
    \/ RunEngine
    \/ FetchCacheHit
    \/ FetchFailure
    \/ FetchFresh
    \/ ReportFetchFailure
    \/ EvaluateReturns
    \/ EvaluateRaises
    \/ DispatchAccepted
    \/ DispatchRejected
    \/ Exit

Spec == Init /\ [][Next]_vars

(***************************************************************************)
(* send_telegram_alert on messages of any shape                            *)
(***************************************************************************)
MaxLines == 3

LineLengths == {0, 1500, 3999, 4000, 4001}

\* a line of n characters; the lines of a message alternate between two
\* characters so that a chunk out of place shows
LineText(i, n) == IF n = 0 THEN <<>> ELSE <<Run(IF i % 2 = 1 THEN "a" ELSE "b", n)>>

Messages ==
    UNION { {JoinLines([i \in 1 .. k |-> LineText(i, f[i])]) :
                f \in [1 .. k -> LineLengths]} : k \in 1 .. MaxLines }

InitDispatch ==
    /\ pc = "call"
    /\ message \in Messages
    /\ now = 0
    /\ cache = NoCache
    /\ resp = NoResponse
    /\ requests = 0
    /\ cacheAtCall = NoCache
    /\ df = NoFrame
    /\ alerts = <<>>
    /\ sinkCalls = <<>>
    /\ delivered = 0
    /\ printed = <<>>
    /\ sendRet = "-"
    /\ logs = <<>>
    /\ memory = EmptyMapping

NextDispatch == DispatchAccepted \/ DispatchRejected

SpecDispatch == InitDispatch /\ [][NextDispatch]_vars

(***************************************************************************)
(* evaluate_trade_alerts on snapshots                                      *)
(***************************************************************************)
MaxRows == 4

ChgValues == {9000, 20000, 50000}

\* the i-th contract of a snapshot: strikes 50 apart, as on the exchange
SnapshotRow(i, type, chg) ==
    [Type |-> type, Strike |-> Num(18000 + 50 * (i - 1)), LTP |-> Num(21),
     IV |-> Num(15), OI |-> Num(100), ChgOI |-> Num(chg),
     Theta |-> ThetaOf(Num(21)), expiryDate |-> Timestamp(1),
     underlyingValue |-> Num(18020)]

Snapshots ==
    UNION { {[i \in 1 .. k |-> SnapshotRow(i, f[i][1], f[i][2])] :
                f \in [1 .. k -> {"CE", "PE"} \X ChgValues]} : k \in 0 .. MaxRows }

InitEval ==
    /\ pc = "input"
    /\ df \in {[isNone |-> FALSE, rows |-> r] : r \in Snapshots}
    /\ now = 0
    /\ cache = NoCache
    /\ resp = NoResponse
    /\ requests = 0
    /\ cacheAtCall = NoCache
    /\ alerts = <<>>
    /\ message = <<>>
    /\ sinkCalls = <<>>
    /\ delivered = 0
    /\ printed = <<>>
    /\ sendRet = "-"
    /\ logs = <<>>
    /\ memory = EmptyMapping

NextEval == EvaluateReturns \/ EvaluateRaises

SpecEval == InitEval /\ [][NextEval]_vars

(***************************************************************************)
(* load_rolling_oi                                                         *)
(***************************************************************************)
\* a file of logs/: whether its name ends in "_ce.csv", whether read_csv
\* and the Type, Strike and OI columns can be read, and its rows
LogFile(ce, ok, rows) == [ce |-> ce, ok |-> ok, rows |-> rows]

LogRow(type, strike, oi) == [Type |-> type, Strike |-> strike, OI |-> oi]

\* f"{row['Type']}_{row['Strike']}"
KeyOf(row) == <<row.Type, row.Strike>>

\* [f for f in os.listdir(LOGS_DIR) if f.endswith("_ce.csv")], sorted
RECURSIVE CeLogs(_)
CeLogs(files) ==
    IF files = <<>> THEN <<>>
    ELSE (IF files[1].ce THEN <<files[1]>> ELSE <<>>) \o CeLogs(Tail(files))

\* a plausible slip: the [-3:] left out
LastLogsAll(files, n) == files

\* files[-n:]
LastLogs(files, n) ==
    SubSeq(files, IF Len(files) > n THEN Len(files) - n + 1 ELSE 1, Len(files))

RECURSIVE AllRows(_)
AllRows(files) ==
    IF files = <<>> THEN <<>> ELSE files[1].rows \o AllRows(Tail(files))

\* memory[key]: the OI of every row with that key, in reading order
RECURSIVE Observed(_, _)
Observed(rows, key) ==
    IF rows = <<>> THEN <<>>
    ELSE (IF KeyOf(rows[1]) = key THEN <<rows[1].OI>> ELSE <<>>)
         \o Observed(Tail(rows), key)

RECURSIVE SumSeq(_)
SumSeq(v) == IF v = <<>> THEN 0 ELSE v[1] + SumSeq(Tail(v))

RECURSIVE Gcd(_, _)
Gcd(a, b) == IF b = 0 THEN a ELSE Gcd(b, a % b)

\* np.mean(v), as a fraction in lowest terms
Mean(v) ==
    LET g == Gcd(SumSeq(v), Len(v)) IN
    [num |-> SumSeq(v) \div g, den |-> Len(v) \div g]

\* the files load_rolling_oi reads
LogsRead(files) == LastLogs(CeLogs(files), 3)

\* some file that is read raises: the except clause returns {}
LoadRaises(files) ==
    \E i \in 1 .. Len(LogsRead(files)) : ~LogsRead(files)[i].ok

\* line 105
RollingMeans(files) ==
    LET rows == AllRows(LogsRead(files))
        keys == {KeyOf(rows[i]) : i \in 1 .. Len(rows)}
    IN  [k \in {k \in keys : Len(Observed(rows, k)) >= 2} |-> Mean(Observed(rows, k))]

LoadRollingReturns ==
    /\ pc = "input"
    /\ ~LoadRaises(logs)
    /\ memory' = RollingMeans(logs)
    /\ pc' = "loaded"
    /\ UNCHANGED <<now, cache, resp, requests, cacheAtCall, df, alerts, message,
                   sinkCalls, delivered, printed, sendRet, logs>>

LoadRollingFails ==
    /\ pc = "input"
    /\ LoadRaises(logs)
    /\ memory' = EmptyMapping
    /\ printed' = Append(printed, "Rolling OI fetch failed:")
    /\ pc' = "loaded"
    /\ UNCHANGED <<now, cache, resp, requests, cacheAtCall, df, alerts, message,
                   sinkCalls, delivered, sendRet, logs>>

MaxLogs == 4

\* what one file of logs/ may be: a call-side log of up to two rows, a
\* call-side log that cannot be parsed, a file of another name
LogFiles ==
    { LogFile(TRUE, TRUE, rows) :
        rows \in { <<>>,
                   <<LogRow("CE", 18000, 100)>>,
                   <<LogRow("CE", 18000, 300)>>,
                   <<LogRow("CE", 18050, 200)>>,
                   <<LogRow("CE", 18000, 100), LogRow("CE", 18000, 300)>>,
                   <<LogRow("CE", 18000, 100), LogRow("CE", 18050, 200)>> } }
    \cup { LogFile(TRUE, FALSE, <<>>),
           LogFile(FALSE, TRUE, <<LogRow("PE", 18000, 300)>>) }

InitRolling ==
    /\ pc = "input"
    /\ logs \in UNION {[1 .. k -> LogFiles] : k \in 0 .. MaxLogs}
    /\ memory = EmptyMapping
    /\ now = 0
    /\ cache = NoCache
    /\ resp = NoResponse
    /\ requests = 0
    /\ cacheAtCall = NoCache
    /\ df = NoFrame
    /\ alerts = <<>>
    /\ message = <<>>
    /\ sinkCalls = <<>>
    /\ delivered = 0
    /\ printed = <<>>
    /\ sendRet = "-"

NextRolling == LoadRollingReturns \/ LoadRollingFails

SpecRolling == InitRolling /\ [][NextRolling]_vars

(***************************************************************************)
(* Claims about fetch_nifty_chain (under Spec)                             *)
(***************************************************************************)
AfterFetch == pc \in {"fetched", "evaluated", "done", "crashed"}

AgeAtCall == now - cacheAtCall.mtime

\* C1: whenever the cache file exists and its age is strictly below
\* cache_minutes * 60 seconds, fetch_nifty_chain issues no request, returns
\* exactly what the cache file holds, and leaves the cache file as it was.
C1_FreshCacheIsReturned ==
    (AfterFetch /\ cacheAtCall.exists /\ AgeAtCall < cache_minutes * 60)
    => /\ requests = 0
       /\ resp = NoResponse
       /\ ~df.isNone
       /\ df.rows = ReadCsv(cacheAtCall.rows)
       /\ cache = cacheAtCall

\* a cache one second short of the TTL, holding contracts, was returned
C1_Witness ==
    /\ pc = "fetched"
    /\ cacheAtCall.exists
    /\ AgeAtCall = cache_minutes * 60 - 1
    /\ requests = 0
    /\ df.rows # <<>>
    /\ df.rows = ReadCsv(cache.rows)

\* the acquisition failures the claim lists
AcquisitionFailed ==
    \/ resp.kind \in {"home_raises", "api_raises"}
    \/ resp.kind = "answered" /\ resp.status # 200
    \/ resp.kind = "answered" /\ resp.status = 200 /\ ~Parses(resp)

\* C2: on every acquisition failure (a status other than 200, a transport
\* exception, a malformed payload) fetch_nifty_chain returns None without
\* raising, and the cache file holds what it held before the call.
C2_FailureReturnsNoneCacheKept ==
    (AfterFetch /\ AcquisitionFailed)
    => /\ df.isNone
       /\ cache = cacheAtCall
       /\ pc # "crashed"

\* a stale cache survived each kind of failure
C2_Witness ==
    /\ pc = "fetched"
    /\ cacheAtCall.exists
    /\ cacheAtCall.rows # <<>>
    /\ AgeAtCall >= cache_minutes * 60
    /\ resp.kind = "answered"
    /\ resp.status # 200
    /\ resp.body = "records"
    /\ df.isNone
    /\ cache = cacheAtCall

\* a raw row all of whose required fields parse
RawRowComplete(r) ==
    /\ \A f \in {"Strike", "lastPrice", "impliedVolatility", "openInterest",
                 "changeinOpenInterest", "underlyingValue"} : r[f].t = "num"
    /\ r.expiryDate.t = "datestr"

AllSendsAccepted == sinkCalls # <<>> /\ delivered = Len(sinkCalls)

\* C4: when every send succeeds, the chunks reach the sink one after another
\* in the order of the message, every chunk is at most 4000 characters
\* long, and the chunks concatenated in delivery order are the message.
\* (a property of SpecDispatch)
C4_ChunksRebuildMessage ==
    (pc = "returned" /\ "Telegram alert sent!" \in {printed[i] : i \in 1 .. Len(printed)})
    => /\ AllSendsAccepted
       /\ \A i \in 1 .. Len(sinkCalls) : TextLen(sinkCalls[i]) <= ChunkSize
       /\ ConcatAll(sinkCalls) = message

\* a message of three chunks or more, with newlines, was delivered whole
C4_Witness ==
    /\ pc = "returned"
    /\ AllSendsAccepted
    /\ Len(sinkCalls) >= 3
    /\ TextLen(message) > 2 * ChunkSize
    /\ \E i \in 1 .. Len(message) : message[i].c = NL
    /\ ConcatAll(sinkCalls) = message

\* where the i-th chunk sent begins in the message
RECURSIVE SentBefore(_)
SentBefore(i) == IF i <= 1 THEN 0 ELSE SentBefore(i - 1) + TextLen(sinkCalls[i - 1])

HasNewline(t) == \E i \in 1 .. Len(t) : t[i].c = NL

\* C5: a message longer than the transport size is cut, for each non-final
\* chunk, at the last newline at or before the limit, and at the limit
\* itself only when no newline lies before it: no line is split across two
\* chunks when a newline was available within the limit.
\* (a property of SpecDispatch)
C5_Claim_ChunksEndAtNewline ==
    pc = "returned"
    => \A i \in 1 .. Len(sinkCalls) :
        LET from == SentBefore(i)
            to == from + TextLen(sinkCalls[i])
            window == Slice(message, from, from + ChunkSize)
        IN  to < TextLen(message)
            => IF HasNewline(DropChars(window, 1))
               THEN CharAt(message, to - 1) = NL \/ CharAt(message, to) = NL
               ELSE to = from + ChunkSize

\* C6: when the sink fails on some chunk, send_telegram_alert reports the
\* failure, sends no chunk a second time, and returns to run_engine an
\* outcome that tells full delivery from failed or partial delivery; such a
\* run never ends having reported only success.
\* (a property of Spec)
C6_Claim_FailureIsSurfaced ==
    (pc = "done" /\ sinkCalls # <<>> /\ delivered < Len(sinkCalls))
    => /\ "Telegram alert failed" \in {printed[i] : i \in 1 .. Len(printed)}
       /\ "Telegram alert sent!" \notin {printed[i] : i \in 1 .. Len(printed)}
       /\ Len(sinkCalls) = delivered + 1
       /\ sendRet # ReturnOnFullDelivery

(***************************************************************************)
(* Claims about run_engine and evaluate_trade_alerts                       *)
(***************************************************************************)
\* C7: run_engine ends normally, no exception escaping it, whatever the
\* cycle's outcome: a fresh cache, a refetch, an acquisition failure, a
\* send failure, and a snapshot of zero contracts, which
\* evaluate_trade_alerts handles without indexing into the empty table.
\* (a property of Spec)
C7_Claim_NoExceptionEscapes == pc # "crashed"

NoRankedContracts ==
    /\ ~df.isNone
    /\ TypeRows(df.rows, "CE") = <<>>
    /\ TypeRows(df.rows, "PE") = <<>>

\* C8: when the snapshot has no CALL and no PUT row, evaluate_trade_alerts
\* returns an empty list of alert lines and run_engine makes no call to the
\* sink in that cycle.
\* (a property of Spec)
C8_Claim_NothingRankedNothingSent ==
    (pc \in {"evaluated", "done", "crashed"} /\ NoRankedContracts)
    => /\ pc # "crashed"
       /\ alerts = <<>>
       /\ sinkCalls = <<>>

\* rows of one class in descending Chg OI, equal ones in input order
StableDescending(rows) ==
    LET p == CHOOSE p \in Permutations(1 .. Len(rows)) :
                \A i, j \in 1 .. Len(rows) :
                    i < j => \/ rows[p[i]].ChgOI.n > rows[p[j]].ChgOI.n
                             \/ /\ rows[p[i]].ChgOI.n = rows[p[j]].ChgOI.n
                                /\ p[i] < p[j]
    IN  [i \in 1 .. Len(rows) |-> rows[p[i]]]

Ranked(q) == [i \in 1 .. Len(q) |-> <<q[i].Type, q[i].Strike.n, q[i].ChgOI.n>>]

\* C9: for each class evaluate_trade_alerts emits exactly the min(3, n)
\* contracts of largest Chg OI, in descending Chg OI, contracts of equal
\* Chg OI in snapshot order (at the cut-off and in the output), and every
\* CALL line comes before every PUT line.
\* (a property of SpecEval)
C9_Claim_TopThreeStable ==
    pc = "ranked"
    => LET lines == SelectSeq(alerts, LAMBDA l : l.kind = "contract") IN
       [i \in 1 .. Len(lines) |-> <<lines[i].cls, lines[i].strike, lines[i].chg>>]
       = Ranked(HeadRows(StableDescending(TypeRows(df.rows, "CE")), 3))
         \o Ranked(HeadRows(StableDescending(TypeRows(df.rows, "PE")), 3))

(***************************************************************************)
(* Claims about load_rolling_oi (under SpecRolling)                        *)
(***************************************************************************)
\* the positions in logs/ of the three call-side logs last in name order
RecentLogs ==
    LET ce == {i \in 1 .. Len(logs) : logs[i].ce} IN
    {i \in ce : Cardinality({j \in ce : j > i}) < 3}

RecentReadable == \A i \in RecentLogs : logs[i].ok

AllKeys == UNION {{KeyOf(logs[i].rows[j]) : j \in 1 .. Len(logs[i].rows)} : i \in 1 .. Len(logs)}

\* the rows (log, row) of the recent logs that carry key k
RowsOf(k) ==
    {ij \in UNION {{<<i, j>> : j \in 1 .. Len(logs[i].rows)} : i \in RecentLogs} :
        KeyOf(logs[ij[1]].rows[ij[2]]) = k}

RECURSIVE SumOI(_)
SumOI(S) ==
    IF S = {} THEN 0
    ELSE LET x == CHOOSE x \in S : TRUE IN logs[x[1]].rows[x[2]].OI + SumOI(S \ {x})

\* in how many of the recent logs key k appears
LogsWith(k) == Cardinality({ij[1] : ij \in RowsOf(k)})

====
